---- MODULE Spec2Model ----
(***************************************************************************)
(* Model of the note store (src/note_db.py, class NoteDB) on one SQLite    *)
(* connection.                                                             *)
(*                                                                         *)
(* Text values are sequences of one-character strings.  An optional        *)
(* argument is None (the empty sequence) or Some(v) (a one-element         *)
(* sequence).  Timestamps are the naturals from 1 up: datetime.isoformat   *)
(* renders naive datetimes at a fixed width up to the seconds, and a       *)
(* value with zero microseconds is a proper prefix of every later value    *)
(* of the same second, so SQLite's text comparison of two created_at       *)
(* values agrees with the order of the instants they render.  The date     *)
(* value 0 stands for the empty string, which sorts before every           *)
(* timestamp.                                                              *)
(***************************************************************************)
EXTENDS Integers, Sequences, FiniteSets, TLC

\* ------------------------------------------------------------------ bounds
\* Number of steps (calls on the store and clock ticks) of a behaviour.
MaxSteps == 3

\* ------------------------------------------------------------------ inputs
None == <<>>
Some(v) == <<v>>
IsNone(o) == Len(o) = 0
IsSome(o) == Len(o) = 1
Val(o) == o[1]

\* Tag names, and the tag lists passed to add_note (empty, single, both
\* orders of two names, a repeated name at the end and in the middle of the
\* list) and to update_note.
TagA == <<"a">>
TagB == <<"b">>
TagLists ==
    {<<>>, <<TagA>>, <<TagB>>, <<TagA, TagB>>, <<TagB, TagA>>,
     <<TagA, TagA>>, <<TagA, TagA, TagB>>}
UpdateTagLists == {<<>>, <<TagB>>, <<TagA, TagB>>, <<TagA, TagA, TagB>>}

\* Titles and contents given to add_note, and those given to update_note
\* (a content "provided as empty" among them).
Titles == {<<"A">>, <<"a", "b">>}
Contents == {<<>>, <<"b">>}
UpdateTitles == {<<"a", "b">>}
UpdateContents == {<<>>}
Range(s) == {s[i] : i \in 1..Len(s)}

\* text.split(sep): the pieces of text between the occurrences of sep.
RECURSIVE SplitOn(_, _)
SplitOn(text, sep) ==
    IF \E i \in 1..(Len(text) - Len(sep) + 1) : SubSeq(text, i, i + Len(sep) - 1) = sep
    THEN LET i == CHOOSE k \in 1..(Len(text) - Len(sep) + 1) :
                      /\ SubSeq(text, k, k + Len(sep) - 1) = sep
                      /\ \A m \in 1..(k - 1) : SubSeq(text, m, m + Len(sep) - 1) # sep
         IN  <<SubSeq(text, 1, i - 1)>> \o SplitOn(SubSeq(text, i + Len(sep), Len(text)), sep)
    ELSE <<text>>

\* ------------------------------------------------------------------ state
\* db             : what statements on the connection see (committed rows
\*                  plus the rows of the open transaction, if any)
\* in_transaction : conn.in_transaction, TRUE while writes await a commit
\* clock          : the current instant, which datetime.now() returns
\* last           : the step that produced the current state: its name, its
\*                  note id (for add_note the id assigned), its outcome, and
\*                  what the call got to test: whether title, content and
\*                  tags were not None (update_note tests none of them
\*                  before its early "return False"); for
\*                  search_notes and get_all_notes, found is the list
\*                  returned, as note ids; for get_all_notes, sort_by and
\*                  order are the arguments given; for export_notes, text
\*                  is the text returned
\* steps          : the number of steps taken: calls made on the store
\*                  directly, clock ticks, and runs of main started
\* cli            : the run of main (src/app.py): where it stands (pc), the
\*                  parsed arguments, the answer read by input(), how often
\*                  it opened and closed the store, the store calls it
\*                  issued and whether each came after close(), whether an
\*                  exception is propagating, what it printed, and the
\*                  rows the store file held when it was opened
VARIABLES db, in_transaction, clock, last, steps, cli

vars == <<db, in_transaction, clock, last, steps, cli>>

\* No run of main: the record of cli outside a run.
NoArgs == [command |-> "", id |-> 0, title |-> <<>>, content |-> <<>>, tags |-> <<>>,
           yes |-> FALSE]
NoRun ==
    [pc |-> "idle", args |-> NoArgs, answer |-> <<>>, opens |-> 0, closes |-> 0,
     calls |-> <<>>, after_close |-> FALSE, raised |-> FALSE, printed |-> "",
     saved |-> <<>>]

\* A call made on the store directly or a clock tick, outside a run of
\* main; it counts towards MaxSteps.
Step ==
    /\ steps < MaxSteps
    /\ steps' = steps + 1
    /\ cli.pc \in {"idle", "done"}
    /\ cli' = cli

\* The three tables of _create_tables, empty, with both AUTOINCREMENT
\* sequences at zero.  notes is a function from id to row; tags is a set of
\* rows [id, name]; note_tags is a set of pairs <<note_id, tag_id>>.
\* Foreign keys are declared, but the connection never turns on
\* PRAGMA foreign_keys, so SQLite does not enforce them.
EmptyDB ==
    [notes |-> <<>>, tags |-> {}, note_tags |-> {}, seq_notes |-> 0, seq_tags |-> 0]

Call(op, id, title, content, tags, result) ==
    [op |-> op, id |-> id, title |-> IsSome(title), content |-> IsSome(content),
     tags |-> IsSome(tags), result |-> result, found |-> <<>>,
     sort_by |-> "", order |-> "", text |-> <<>>]

Init ==
    /\ db = EmptyDB
    /\ in_transaction = FALSE
    /\ clock = 1
    /\ last = Call("init", 0, None, None, None, "ok")
    /\ steps = 0
    /\ cli = NoRun

\* ------------------------------------------------------------------ tables
NoteExists(d, id) == id \in DOMAIN d.notes

\* The ids update_note and delete_note are called with: every id assigned so
\* far (existing or deleted) and the next one, which names no note.
CallIds == 1..(db.seq_notes + 1)

\* SELECT id FROM tags WHERE name = ?  (the rows found)
TagRowsNamed(d, name) == {t \in d.tags : t.name = name}

\* INSERT INTO tags (name) VALUES (?): AUTOINCREMENT gives the next id; the
\* UNIQUE constraint on name makes the INSERT of a name already present
\* raise sqlite3.IntegrityError and insert nothing.
InsertTag(d, name) ==
    IF TagRowsNamed(d, name) # {}
    THEN [db |-> d, raised |-> TRUE]
    ELSE [db |-> [d EXCEPT !.tags = @ \cup {[id |-> d.seq_tags + 1, name |-> name]},
                           !.seq_tags = @ + 1],
          raised |-> FALSE]

\* _get_or_create_tag without the lookup: every call inserts.
get_or_create_tag_NoLookup(d, name) ==
    LET ins == InsertTag(d, name)
    IN  [db |-> ins.db, tag_id |-> ins.db.seq_tags, raised |-> ins.raised]

\* _get_or_create_tag: the store after the call, the tag id returned
\* (cursor.lastrowid after an INSERT), and whether the call raised.
get_or_create_tag(d, name) ==
    LET rows == TagRowsNamed(d, name)
        ins == InsertTag(d, name)
    IN  IF rows # {}
        THEN [db |-> d, tag_id |-> (CHOOSE t \in rows : TRUE).id, raised |-> FALSE]
        ELSE [db |-> ins.db, tag_id |-> ins.db.seq_tags, raised |-> ins.raised]

\* The loop "for tag in tags: tag_id = _get_or_create_tag(tag); INSERT INTO
\* note_tags" of add_note and update_note.  The primary key (note_id, tag_id)
\* makes the INSERT of a pair already present raise sqlite3.IntegrityError;
\* the statements before it stay in the open transaction.
RECURSIVE InsertNoteTags(_, _, _)
InsertNoteTags(d, note_id, tags) ==
    IF tags = <<>> THEN [db |-> d, raised |-> FALSE]
    ELSE LET g == get_or_create_tag(d, Head(tags))
             pair == <<note_id, g.tag_id>>
         IN  IF g.raised \/ pair \in g.db.note_tags
             THEN [db |-> g.db, raised |-> TRUE]
             ELSE InsertNoteTags([g.db EXCEPT !.note_tags = @ \cup {pair}],
                                 note_id, Tail(tags))

\* get_note: None for a missing id, else the row with its tag names.
NoteTagNames(d, id) ==
    {t.name : t \in {u \in d.tags : <<id, u.id>> \in d.note_tags}}

get_note(d, id) ==
    IF ~NoteExists(d, id) THEN None
    ELSE Some([id |-> id,
               title |-> d.notes[id].title,
               content |-> d.notes[id].content,
               created_at |-> d.notes[id].created_at,
               updated_at |-> d.notes[id].updated_at,
               tags |-> NoteTagNames(d, id)])

\* ------------------------------------------------------------------ add_note
\* add_note on a notes table without AUTOINCREMENT: the new id is one more
\* than the greatest id of the rows present.
add_note_ReuseRowid(d, title, content, tags, now) ==
    LET present == DOMAIN d.notes
        id == IF present = {} THEN 1
              ELSE (CHOOSE i \in present : \A j \in present : j <= i) + 1
        row == [title |-> title, content |-> content,
                created_at |-> now, updated_at |-> now]
        d1 == [d EXCEPT !.notes = [i \in DOMAIN d.notes \cup {id} |->
                                      IF i = id THEN row ELSE d.notes[i]],
                        !.seq_notes = IF id > @ THEN id ELSE @]
        r == InsertNoteTags(d1, id, tags)
    IN  [db |-> r.db, id |-> id, raised |-> r.raised]

\* INSERT INTO notes, then the tag loop (skipped for an empty list).  raised
\* tells that the loop raised, which skips the commit and the return.
add_note(d, title, content, tags, now) ==
    LET id == d.seq_notes + 1
        row == [title |-> title, content |-> content,
                created_at |-> now, updated_at |-> now]
        d1 == [d EXCEPT !.notes = [i \in DOMAIN d.notes \cup {id} |->
                                      IF i = id THEN row ELSE d.notes[i]],
                        !.seq_notes = id]
        r == InsertNoteTags(d1, id, tags)
    IN  [db |-> r.db, id |-> id, raised |-> r.raised]

AddNoteOf(inputs) ==
    /\ Step
    /\ \E input \in inputs :
          LET title == input[1]
              content == input[2]
              tags == input[3]
              now == clock
              r == add_note(db, title, content, tags, now)
          IN  /\ db' = r.db
              /\ in_transaction' = r.raised
              /\ clock' = now
              /\ last' = Call("add_note", r.id, Some(title), Some(content), Some(tags),
                               IF r.raised THEN "IntegrityError" ELSE "ok")

AddNote == AddNoteOf(Titles \X Contents \X TagLists)

\* ------------------------------------------------------------------ update_note
Opt(S) == {None} \cup {Some(v) : v \in S}

\* The UPDATE with "updated_at = ?" appended whether or not a column is
\* supplied.
SetColumns_AlwaysTouch(row, title, content, now) ==
    [row EXCEPT !.title = IF IsSome(title) THEN Val(title) ELSE @,
                !.content = IF IsSome(content) THEN Val(content) ELSE @,
                !.updated_at = now]

\* "UPDATE notes SET ... WHERE id = ?": only the supplied columns, and
\* updated_at whenever at least one of them is supplied.
SetColumns(row, title, content, now) ==
    IF IsNone(title) /\ IsNone(content) THEN row
    ELSE [row EXCEPT !.title = IF IsSome(title) THEN Val(title) ELSE @,
                     !.content = IF IsSome(content) THEN Val(content) ELSE @,
                     !.updated_at = now]

\* The tag replacement with "if tags is not None" dropped: omitted tags are
\* handled as an empty list.
ReplaceNoteTags_OmittedAsEmpty(d, id, tags) ==
    InsertNoteTags([d EXCEPT !.note_tags = {p \in @ : p[1] # id}],
                   id, IF IsSome(tags) THEN Val(tags) ELSE <<>>)

\* "if tags is not None": DELETE FROM note_tags WHERE note_id = ?, then the
\* tag loop.
ReplaceNoteTags(d, id, tags) ==
    IF IsNone(tags) THEN [db |-> d, raised |-> FALSE]
    ELSE InsertNoteTags([d EXCEPT !.note_tags = {p \in @ : p[1] # id}],
                        id, Val(tags))

\* update_note without the early "return False": the UPDATE matches no row of
\* a missing id, and the tag statements run all the same.
update_note_NoExistenceCheck(d, id, title, content, tags, now) ==
    LET d1 == IF NoteExists(d, id)
              THEN [d EXCEPT !.notes[id] = SetColumns(@, title, content, now)]
              ELSE d
        r == ReplaceNoteTags(d1, id, tags)
    IN  [db |-> r.db, found |-> TRUE, raised |-> r.raised]

\* found is FALSE on the early "return False", which issues no write and no
\* commit.
update_note(d, id, title, content, tags, now) ==
    IF ~NoteExists(d, id) THEN [db |-> d, found |-> FALSE, raised |-> FALSE]
    ELSE LET d1 == [d EXCEPT !.notes[id] = SetColumns(@, title, content, now)]
             r == ReplaceNoteTags(d1, id, tags)
         IN  [db |-> r.db, found |-> TRUE, raised |-> r.raised]

UpdateNoteOf(inputs) ==
    /\ Step
    /\ \E id \in CallIds, input \in inputs :
       LET title == input[1]
           content == input[2]
           tags == input[3]
           now == clock
           r == update_note(db, id, title, content, tags, now)
       IN  /\ db' = r.db
           /\ in_transaction' = IF r.found THEN r.raised ELSE in_transaction
           /\ clock' = now
           /\ last' = IF ~r.found
                       THEN Call("update_note", id, None, None, None, "not_found")
                       ELSE Call("update_note", id, title, content, tags,
                                 IF r.raised THEN "IntegrityError" ELSE "ok")

UpdateNote == UpdateNoteOf(Opt(UpdateTitles) \X Opt(UpdateContents) \X Opt(UpdateTagLists))

\* ------------------------------------------------------------------ delete_note
\* delete_note that also drops the tags no remaining note carries.
delete_note_PruneTags(d, id) ==
    LET notes == [i \in DOMAIN d.notes \ {id} |-> d.notes[i]]
        pairs == {p \in d.note_tags : p[1] \in DOMAIN notes}
    IN  [db |-> [d EXCEPT !.notes = notes,
                          !.note_tags = pairs,
                          !.tags = {t \in @ : \E p \in pairs : p[2] = t.id}],
         deleted |-> NoteExists(d, id)]

\* DELETE FROM notes WHERE id = ?; deleted = rowcount > 0; commit.  With
\* foreign keys not enforced, ON DELETE CASCADE removes nothing.
delete_note(d, id) ==
    [db |-> [d EXCEPT !.notes = [i \in DOMAIN d.notes \ {id} |-> d.notes[i]]],
     deleted |-> NoteExists(d, id)]

DeleteNote ==
    /\ Step
    /\ \E id \in CallIds :
       LET r == delete_note(db, id)
       IN  /\ db' = r.db
           /\ in_transaction' = FALSE
           /\ clock' = clock
           /\ last' = Call("delete_note", id, None, None, None,
                            IF r.deleted THEN "ok" ELSE "not_found")

\* ------------------------------------------------------------------ get_statistics
\* COUNT(*) of notes and of tags, and per tag row (LEFT JOIN note_tags,
\* GROUP BY t.id) the number of note_tags rows holding its id, keyed by name.
get_statistics(d) ==
    [total_notes |-> Cardinality(DOMAIN d.notes),
     total_tags |-> Cardinality(d.tags),
     tag_counts |-> [name \in {t.name : t \in d.tags} |->
                        LET t == CHOOSE u \in d.tags : u.name = name
                        IN  Cardinality({p \in d.note_tags : p[2] = t.id})]]

\* ------------------------------------------------------------------ search_notes
\* Python truth of an optional text or list argument ("if title:", "if tags:"):
\* None and the empty value are both false.
Truthy(o) == IsSome(o) /\ Val(o) # <<>>

\* Python truth of an optional date string; the date 0 is the empty string.
TruthyDate(o) == IsSome(o) /\ Val(o) # 0

\* SQLite folds the case of ASCII letters when LIKE compares characters.
Lower(c) == IF c = "A" THEN "a" ELSE IF c = "B" THEN "b" ELSE c

\* text LIKE pattern, SQLite's default LIKE: "%" matches any run of
\* characters, "_" any one character, and letters match without regard to
\* ASCII case.
RECURSIVE Like(_, _)
Like(text, pattern) ==
    IF pattern = <<>> THEN text = <<>>
    ELSE IF Head(pattern) = "%"
         THEN Like(text, Tail(pattern)) \/ (text # <<>> /\ Like(Tail(text), pattern))
         ELSE /\ text # <<>>
              /\ Head(pattern) = "_" \/ Lower(Head(pattern)) = Lower(Head(text))
              /\ Like(Tail(text), Tail(pattern))

\* f"%{title}%"
Wrap(s) == <<"%">> \o s \o <<"%">>

\* The FROM clause: notes alone, or with "if tags:" the two JOINs, which give
\* one row per (note, association, tag).  A row is <<note id, tag id>>, the
\* tag id 0 when there is no JOIN.
FromRows(d, a) ==
    IF Truthy(a.tags)
    THEN {q \in d.note_tags : NoteExists(d, q[1]) /\ \E t \in d.tags : t.id = q[2]}
    ELSE {<<id, 0>> : id \in DOMAIN d.notes}

TagNameOf(d, tag_id) == (CHOOSE t \in d.tags : t.id = tag_id).name

\* The WHERE clause: the conditions appended for the truthy arguments, joined
\* by AND.
Where(d, a, row) ==
    LET n == d.notes[row[1]]
    IN  /\ Truthy(a.tags) => TagNameOf(d, row[2]) \in Range(Val(a.tags))
        /\ Truthy(a.title) => Like(n.title, Wrap(Val(a.title)))
        /\ TruthyDate(a.start_date) => n.created_at >= Val(a.start_date)
        /\ TruthyDate(a.end_date) => n.created_at <= Val(a.end_date)
        /\ Truthy(a.keyword) =>
              (Like(n.title, Wrap(Val(a.keyword))) \/ Like(n.content, Wrap(Val(a.keyword))))

\* SELECT n.* without DISTINCT: one result row per joined row.
SelectAll(rows) == rows

\* SELECT DISTINCT n.*: the selected columns are those of notes, so the
\* joined rows of one note are one result row.
SelectDistinct(rows) == {<<r[1], 0>> : r \in rows}

\* ORDER BY n.created_at DESC: every arrangement of the rows in which
\* created_at does not increase (SQL leaves the order of ties open).
RECURSIVE OrderByCreatedDesc(_, _)
OrderByCreatedDesc(d, rows) ==
    IF rows = {} THEN {<<>>}
    ELSE LET latest == {r \in rows : \A q \in rows :
                           d.notes[r[1]].created_at >= d.notes[q[1]].created_at}
         IN  UNION {{<<r>> \o s : s \in OrderByCreatedDesc(d, rows \ {r})} : r \in latest}

\* Byte values of the characters of titles; SQLite compares text columns
\* byte by byte (BINARY collation), a proper prefix first.
Code == ("A" :> 65) @@ ("B" :> 66) @@ ("C" :> 67) @@ ("a" :> 97) @@ ("b" :> 98)

RECURSIVE TextLess(_, _)
TextLess(s, t) ==
    IF s = <<>> THEN t # <<>>
    ELSE IF t = <<>> THEN FALSE
    ELSE IF Head(s) = Head(t) THEN TextLess(Tail(s), Tail(t))
    ELSE Code[Head(s)] < Code[Head(t)]

\* The value of column "field" of note i is less than that of note j.
KeyLess(d, i, j, field) ==
    IF field = "title" THEN TextLess(d.notes[i].title, d.notes[j].title)
    ELSE d.notes[i][field] < d.notes[j][field]

\* An ordering that never looks at the direction asked for.
RECURSIVE OrderBy_IgnoreDirection(_, _, _, _)
OrderBy_IgnoreDirection(d, ids, field, order) ==
    IF ids = {} THEN <<>>
    ELSE LET Precedes(i, j) == KeyLess(d, i, j, field) \/ (~KeyLess(d, j, i, field) /\ i < j)
             first == CHOOSE i \in ids : \A j \in ids \ {i} : Precedes(i, j)
         IN  <<first>> \o OrderBy_IgnoreDirection(d, ids \ {first}, field, order)

\* SELECT ... FROM notes ORDER BY field order, as note ids.  The scan of
\* notes alone runs in rowid order and SQLite's sorter keeps the scan order
\* of rows with equal keys, for ASC and DESC alike.
RECURSIVE OrderBy(_, _, _, _)
OrderBy(d, ids, field, order) ==
    IF ids = {} THEN <<>>
    ELSE LET Precedes(i, j) ==
                 IF KeyLess(d, i, j, field) THEN order = "ASC"
                 ELSE IF KeyLess(d, j, i, field) THEN order = "DESC"
                 ELSE i < j
             first == CHOOSE i \in ids : \A j \in ids \ {i} : Precedes(i, j)
         IN  <<first>> \o OrderBy(d, ids \ {first}, field, order)

\* search_notes with the rows of equal created_at in any order, whatever the
\* statement scans.
search_notes_AnyTieOrder(d, a) ==
    LET rows == SelectDistinct({r \in FromRows(d, a) : Where(d, a, r)})
    IN  {[i \in 1..Len(s) |-> s[i][1]] : s \in OrderByCreatedDesc(d, rows)}

\* search_notes: the lists it can return, each note as its id (every entry
\* is get_note of the row's id).  Without the JOINs the statement scans
\* notes alone; with them the order of rows of equal created_at depends on
\* the join order the planner picks.
search_notes(d, a) ==
    LET rows == SelectDistinct({r \in FromRows(d, a) : Where(d, a, r)})
    IN  IF Truthy(a.tags)
        THEN {[i \in 1..Len(s) |-> s[i][1]] : s \in OrderByCreatedDesc(d, rows)}
        ELSE {OrderBy(d, {r[1] : r \in rows}, "created_at", "DESC")}

\* Arguments of search_notes: a title of a lower-case letter or a wildcard
\* character; a keyword; tag lists of no, one and two names; a start date
\* equal to the second instant; an end date equal to the first instant, or
\* the empty string.
SearchTitles == {<<"a">>, <<"_">>}
SearchKeywords == {<<"b">>}
SearchTagLists == {<<>>, <<TagA>>, <<TagA, TagB>>}
SearchStartDates == {2}
SearchEndDates == {0, 1}
SearchArgs ==
    [title : Opt(SearchTitles), tags : Opt(SearchTagLists),
     start_date : Opt(SearchStartDates), end_date : Opt(SearchEndDates),
     keyword : Opt(SearchKeywords)]

\* The notes added to a store that is searched: a title in upper case with
\* the keyword in the content, or a title that holds the keyword.
SearchedNotes ==
    {<<<<"A">>, <<"b">>, tags>> : tags \in SearchTagLists}
        \cup {<<<<"a", "b">>, <<>>, tags>> : tags \in SearchTagLists}

AddSearchedNote == AddNoteOf(SearchedNotes)

SearchNotes ==
    /\ Step
    /\ \E a \in SearchArgs :
       \E res \in search_notes(db, a) :
          /\ last' = [Call("search_notes", 0, None, None, None, "ok") EXCEPT !.found = res]
          /\ UNCHANGED <<db, in_transaction, clock>>

\* ------------------------------------------------------------------ get_all_notes
\* get_all_notes ordering in ascending order unless told otherwise.
get_all_notes_AscendingDefault(d, sort_by, order) ==
    LET valid_sort ==
            IF sort_by \in {"created_at", "updated_at", "title"} THEN sort_by
            ELSE "created_at"
        valid_order == IF order \in {"ASC", "DESC"} THEN order ELSE "ASC"
    IN  OrderBy(d, DOMAIN d.notes, valid_sort, valid_order)

\* get_all_notes: SELECT * FROM notes ORDER BY valid_sort valid_order, each
\* row then read with get_note; the list returned, each note as its id.
get_all_notes(d, sort_by, order) ==
    LET valid_sort ==
            IF sort_by \in {"created_at", "updated_at", "title"} THEN sort_by
            ELSE "created_at"
        valid_order == IF order \in {"ASC", "DESC"} THEN order ELSE "DESC"
    IN  OrderBy(d, DOMAIN d.notes, valid_sort, valid_order)

\* Arguments of get_all_notes: the three sort fields and a column that is
\* not one of them; the two directions and a direction in lower case.
SortFields == {"created_at", "updated_at", "title", "id"}
SortOrders == {"ASC", "DESC", "asc"}

GetAllNotes ==
    /\ Step
    /\ \E sort_by \in SortFields, order \in SortOrders :
          last' = [Call("get_all_notes", 0, None, None, None, "ok")
                       EXCEPT !.found = get_all_notes(db, sort_by, order),
                              !.sort_by = sort_by,
                              !.order = order]
    /\ UNCHANGED <<db, in_transaction, clock>>

\* The notes added to a store that is listed, and the update made to them:
\* titles out of byte order, no content, one tag or none; a new title.
ListedNotes ==
    {<<<<"B">>, <<>>, <<>>>>, <<<<"A">>, <<>>, <<TagA>>>>, <<<<"a", "b">>, <<>>, <<>>>>}
ListedUpdates == {<<Some(<<"C">>), None, None>>}

AddListedNote == AddNoteOf(ListedNotes)
UpdateListedNote == UpdateNoteOf(ListedUpdates)

\* ------------------------------------------------------------------ export_notes
\* Width of the rules "=" * 80 and "-" * 80.
RuleWidth == 80

\* c * n
Repeat(c, n) == [i \in 1..n |-> c]

\* sep.join(parts)
RECURSIVE Join(_, _)
Join(parts, sep) ==
    IF parts = <<>> THEN <<>>
    ELSE IF Len(parts) = 1 THEN parts[1]
    ELSE parts[1] \o sep \o Join(Tail(parts), sep)

\* An integer as f"{...}" renders it, in decimal digits.  A timestamp is
\* rendered the same way, in place of its isoformat text.
Digits == <<"0", "1", "2", "3", "4", "5", "6", "7", "8", "9">>
RECURSIVE DecimalText(_)
DecimalText(n) ==
    IF n < 10 THEN <<Digits[n + 1]>>
    ELSE DecimalText(n \div 10) \o <<Digits[(n % 10) + 1]>>

\* The orders in which get_note can list the names of a note's tags: its
\* SELECT has no ORDER BY.
RECURSIVE Arrangements(_)
Arrangements(S) ==
    IF S = {} THEN {<<>>}
    ELSE UNION {{<<x>> \o rest : rest \in Arrangements(S \ {x})} : x \in S}

\* The lines that export_notes appends for one note, its tags in the order
\* given.
ExportLines(d, id, tags) ==
    LET note == d.notes[id]
    IN  << Repeat("=", RuleWidth),
           <<"T", "i", "t", "l", "e", ":", " ">> \o note.title,
           <<"I", "D", ":", " ">> \o DecimalText(id),
           <<"T", "a", "g", "s", ":", " ">> \o
               (IF tags # <<>> THEN Join(tags, <<",", " ">>) ELSE <<"N", "o", "n", "e">>),
           <<"C", "r", "e", "a", "t", "e", "d", ":", " ">> \o DecimalText(note.created_at),
           <<"U", "p", "d", "a", "t", "e", "d", ":", " ">> \o DecimalText(note.updated_at),
           Repeat("-", RuleWidth),
           note.content,
           <<>> >>

\* The output lists export_notes can build for the notes of the list ids.
RECURSIVE ExportOutputs(_, _)
ExportOutputs(d, ids) ==
    IF ids = <<>> THEN {<<>>}
    ELSE {ExportLines(d, Head(ids), tags) \o rest :
             tags \in Arrangements(NoteTagNames(d, Head(ids))),
             rest \in ExportOutputs(d, Tail(ids))}

\* export_notes: the texts it can return, "\n".join(output) over the notes
\* of get_all_notes().
export_notes(d) ==
    {Join(output, <<"\n">>) :
        output \in ExportOutputs(d, get_all_notes(d, "created_at", "DESC"))}

ExportNotes ==
    /\ Step
    /\ \E text \in export_notes(db) :
          last' = [Call("export_notes", 0, None, None, None, "ok") EXCEPT !.text = text]
    /\ UNCHANGED <<db, in_transaction, clock>>

\* The notes added to a store that is exported: with and without content,
\* with no tag, with two tags, and with a tag named "None".
TagNone == <<"N", "o", "n", "e">>
ExportedNotes ==
    {<<<<"A">>, content, tags>> :
        content \in Contents, tags \in {<<>>, <<TagA, TagB>>, <<TagNone>>}}

AddExportedNote == AddNoteOf(ExportedNotes)

\* ------------------------------------------------------------------ close
\* conn.close(): a transaction left open by a call that raised is rolled
\* back, so the store holds again the rows it held before that call.
close(d, in_tx, saved) == IF in_tx THEN saved ELSE d

\* ------------------------------------------------------------------ app.py
\* str.strip(): the text without its leading and trailing whitespace.
Whitespace == {" ", "\t"}
RECURSIVE LStrip(_)
LStrip(text) ==
    IF text # <<>> /\ Head(text) \in Whitespace THEN LStrip(Tail(text)) ELSE text
RECURSIVE RStrip(_)
RStrip(text) ==
    IF text # <<>> /\ text[Len(text)] \in Whitespace
    THEN RStrip(SubSeq(text, 1, Len(text) - 1))
    ELSE text
Strip(text) == RStrip(LStrip(text))

\* The tag list without the stripping of its pieces.
TagList_Unstripped(text) ==
    LET pieces == IF text # <<>> THEN SplitOn(text, <<",">>) ELSE <<>>
        Kept(tag) == Strip(tag) # <<>>
    IN  SelectSeq(pieces, Kept)

\* tags = text.split(',') if text else []; [tag.strip() for tag in tags if
\* tag.strip()]
TagList(text) ==
    LET pieces == IF text # <<>> THEN SplitOn(text, <<",">>) ELSE <<>>
        Kept(tag) == Strip(tag) # <<>>
        kept == SelectSeq(pieces, Kept)
    IN  [i \in 1..Len(kept) |-> Strip(kept[i])]

\* str.lower() of the answers read.
PyLower(text) == [i \in 1..Len(text) |-> IF text[i] = "Y" THEN "y" ELSE text[i]]

\* Command lines: no command; add with a title, no --content, and --tags
\* given with padded, empty and repeated pieces; update of the tags or of
\* nothing; delete with and without -y; list.
CliTagTexts ==
    {<<" ", "a">>, <<"a", " ", ",", ",", "b", "\t">>, <<" ", ",">>, <<"a", ",", " ", "a">>}
CliArgs ==
    {[NoArgs EXCEPT !.command = "add", !.title = <<"A">>, !.content = None,
                    !.tags = tags] : tags \in Opt(CliTagTexts)}
    \cup {[NoArgs EXCEPT !.command = "update", !.id = 1, !.title = None, !.content = None,
                         !.tags = tags] : tags \in {None, Some(<<>>), Some(<<"b", " ">>)}}
    \cup {[NoArgs EXCEPT !.command = "delete", !.id = 1, !.yes = yes] : yes \in BOOLEAN}
    \cup {[NoArgs EXCEPT !.command = "list"], NoArgs}

\* What input() gives cmd_delete: a line, or EOFError at the end of input.
Answers == {<<"y">>, <<"Y">>, <<"n">>, <<>>, <<"y", "e", "s">>, <<" ", "y">>}

\* A note added by a caller of the store other than main, with a tag name
\* that starts with a space.
PaddedNotes == {<<<<"A">>, <<>>, <<<<" ", "a">>>>>>}

AddPaddedNote == AddNoteOf(PaddedNotes)

\* main up to the dispatch: parse_args; without a command print the help
\* and return.
MainParse ==
    /\ steps < MaxSteps
    /\ steps' = steps + 1
    /\ cli.pc \in {"idle", "done"}
    /\ \E args \in CliArgs :
          cli' = IF args.command = ""
                 THEN [NoRun EXCEPT !.pc = "done", !.printed = "help"]
                 ELSE [NoRun EXCEPT !.pc = "open", !.args = args]
    /\ last' = Call("main", 0, None, None, None, "ok")
    /\ UNCHANGED <<db, in_transaction, clock>>

\* db = NoteDB(args.db): the handle is opened, or sqlite3.connect raises
\* and main ends before its try statement.
MainOpen ==
    /\ cli.pc = "open"
    /\ \/ cli' = [cli EXCEPT !.pc = "dispatch", !.opens = @ + 1, !.saved = db]
       \/ cli' = [cli EXCEPT !.pc = "done", !.raised = TRUE, !.args = NoArgs]
    /\ last' = Call("NoteDB", 0, None, None, None, "ok")
    /\ UNCHANGED <<db, in_transaction, clock, steps>>

\* The record of cli after a command issued the store calls named, printed
\* something or raised: a call issued once closes > 0 comes after close().
Dispatched(calls, printed, raised) ==
    [cli EXCEPT !.pc = "close",
                !.calls = @ \o calls,
                !.after_close = @ \/ (calls # <<>> /\ cli.closes > 0),
                !.printed = printed,
                !.raised = raised]

\* cmd_add
CmdAdd ==
    /\ cli.pc = "dispatch"
    /\ cli.args.command = "add"
    /\ LET tags == IF Truthy(cli.args.tags) THEN TagList(Val(cli.args.tags)) ELSE <<>>
           content == IF Truthy(cli.args.content) THEN Val(cli.args.content) ELSE <<>>
           r == add_note(db, cli.args.title, content, tags, clock)
       IN  /\ db' = r.db
           /\ in_transaction' = r.raised
           /\ last' = Call("cmd_add", r.id, Some(cli.args.title), Some(content), Some(tags),
                            IF r.raised THEN "IntegrityError" ELSE "ok")
           /\ cli' = Dispatched(<<"add_note">>, IF r.raised THEN "" ELSE "added", r.raised)
    /\ UNCHANGED <<clock, steps>>

\* cmd_update
CmdUpdate ==
    /\ cli.pc = "dispatch"
    /\ cli.args.command = "update"
    /\ LET tags == IF IsSome(cli.args.tags) THEN Some(TagList(Val(cli.args.tags))) ELSE None
           r == update_note(db, cli.args.id, cli.args.title, cli.args.content, tags, clock)
       IN  /\ db' = r.db
           /\ in_transaction' = (r.found /\ r.raised)
           /\ last' = Call("cmd_update", cli.args.id, cli.args.title, cli.args.content, tags,
                            IF ~r.found THEN "not_found"
                            ELSE IF r.raised THEN "IntegrityError" ELSE "ok")
           /\ cli' = Dispatched(<<"update_note">>,
                                IF ~r.found THEN "not found"
                                ELSE IF r.raised THEN "" ELSE "updated",
                                r.found /\ r.raised)
    /\ UNCHANGED <<clock, steps>>

\* cmd_delete with the deletion confirmed when input() is not asked or
\* answers anything but "n".
CmdDeleteOutcome_UnlessNo(yes, answered, answer) ==
    IF yes \/ (answered /\ PyLower(answer) # <<"n">>)
    THEN LET r == delete_note(db, cli.args.id)
         IN  [db |-> r.db, calls |-> <<"delete_note">>,
              printed |-> IF r.deleted THEN "deleted" ELSE "not found", raised |-> FALSE]
    ELSE [db |-> db, calls |-> <<>>,
          printed |-> IF answered THEN "cancelled" ELSE "", raised |-> ~answered]

\* cmd_delete: "if args.yes or input(...).lower() == 'y'" (input() is not
\* called when args.yes is set; answered is FALSE when input() raises
\* EOFError), then delete_note and its message, else "Deletion cancelled."
CmdDeleteOutcome(yes, answered, answer) ==
    IF yes \/ (answered /\ PyLower(answer) = <<"y">>)
    THEN LET r == delete_note(db, cli.args.id)
         IN  [db |-> r.db, calls |-> <<"delete_note">>,
              printed |-> IF r.deleted THEN "deleted" ELSE "not found", raised |-> FALSE]
    ELSE [db |-> db, calls |-> <<>>,
          printed |-> IF answered THEN "cancelled" ELSE "", raised |-> ~answered]

CmdDelete ==
    /\ cli.pc = "dispatch"
    /\ cli.args.command = "delete"
    /\ \E answered \in BOOLEAN, answer \in Answers :
          /\ cli.args.yes => (answered /\ answer = <<>>)
          /\ ~answered => answer = <<>>
          /\ LET r == CmdDeleteOutcome(cli.args.yes, answered, answer)
             IN  /\ db' = r.db
                 /\ in_transaction' = IF r.calls # <<>> THEN FALSE ELSE in_transaction
                 /\ last' = Call("cmd_delete", cli.args.id, None, None, None,
                                  IF r.raised THEN "EOFError" ELSE r.printed)
                 /\ cli' = [Dispatched(r.calls, r.printed, r.raised) EXCEPT
                               !.answer = IF cli.args.yes \/ ~answered THEN None
                                          ELSE Some(answer)]
    /\ UNCHANGED <<clock, steps>>

\* cmd_list
CmdList ==
    /\ cli.pc = "dispatch"
    /\ cli.args.command = "list"
    /\ last' = [Call("cmd_list", 0, None, None, None, "ok")
                    EXCEPT !.found = get_all_notes(db, "created_at", "DESC")]
    /\ cli' = Dispatched(<<"get_all_notes">>, "list", FALSE)
    /\ UNCHANGED <<db, in_transaction, clock, steps>>

\* main whose close() is skipped when the command raised (no "finally").
AfterCommand_NoFinally(run) ==
    IF run.raised THEN run ELSE [run EXCEPT !.closes = @ + 1]

\* The "finally: db.close()" of main: close() is called whether or not the
\* command raised.
AfterCommand(run) == [run EXCEPT !.closes = @ + 1]

MainClose ==
    /\ cli.pc = "close"
    /\ LET run == AfterCommand(cli)
       IN  /\ cli' = [run EXCEPT !.pc = "done", !.args = NoArgs, !.saved = <<>>]
           /\ db' = close(db, in_transaction, cli.saved)
    /\ in_transaction' = FALSE
    /\ last' = Call("close", 0, None, None, None, "ok")
    /\ UNCHANGED <<clock, steps>>

\* ------------------------------------------------------------------ time
\* Time passes between two calls; datetime.now() in add_note and update_note
\* reads the clock, so two calls made within one clock instant get equal
\* timestamps.
Tick ==
    /\ Step
    /\ clock' = clock + 1
    /\ last' = Call("tick", 0, None, None, None, "ok")
    /\ UNCHANGED <<db, in_transaction>>

Next ==
    \/ AddNote
    \/ UpdateNote
    \/ DeleteNote
    \/ Tick

Spec == Init /\ [][Next]_vars

\* Notes are added and deleted, time passes, and the store is searched.
NextSearch ==
    \/ AddSearchedNote
    \/ DeleteNote
    \/ Tick
    \/ SearchNotes

SpecSearch == Init /\ [][NextSearch]_vars

\* Notes are added, retitled and deleted, time passes, and the store is
\* listed.
NextList ==
    \/ AddListedNote
    \/ UpdateListedNote
    \/ DeleteNote
    \/ Tick
    \/ GetAllNotes

SpecList == Init /\ [][NextList]_vars

\* Notes are added and deleted, time passes, and the store is exported.
NextExport ==
    \/ AddExportedNote
    \/ DeleteNote
    \/ Tick
    \/ ExportNotes

SpecExport == Init /\ [][NextExport]_vars

\* Runs of main, one after another, on one store file, and between them
\* notes added by another caller of the store.
NextCli ==
    \/ AddPaddedNote
    \/ MainParse
    \/ MainOpen
    \/ CmdAdd
    \/ CmdUpdate
    \/ CmdDelete
    \/ CmdList
    \/ MainClose

SpecCli == Init /\ [][NextCli]_vars

\* ================================================================== claims
ExistingIds == DOMAIN db.notes
TagNamesOf(d) == {t.name : t \in d.tags}

\* C1: for every title, content and tag list, repeats included, add_note
\* returns the new id and get_note of it has the given title and content and
\* the set of the given tag names.
C1_CreateThenGetReturnsInputs ==
    \A title \in Titles, content \in Contents, tags \in TagLists :
        LET r == add_note(db, title, content, tags, clock)
            n == get_note(r.db, r.id)
        IN  /\ ~r.raised
            /\ IsSome(n)
            /\ Val(n).title = title
            /\ Val(n).content = content
            /\ Val(n).tags = Range(tags)

\* C2: every association references an existing note (a deleted note leaves
\* no association behind), and a deleted note is not found.
C2_NoOrphanAssociations ==
    /\ \A p \in db.note_tags : NoteExists(db, p[1])
    /\ (last.op = "delete_note" /\ last.result = "ok") => IsNone(get_note(db, last.id))

\* C3: statistics reports the number of existing notes, the number of
\* existing tags, and for every existing tag the number of existing notes
\* whose get_note tag list holds it.
C3_StatisticsMatchStore ==
    LET st == get_statistics(db)
    IN  /\ st.total_notes = Cardinality(ExistingIds)
        /\ st.total_tags = Cardinality(db.tags)
        /\ DOMAIN st.tag_counts = TagNamesOf(db)
        /\ \A name \in TagNamesOf(db) :
              st.tag_counts[name] =
                  Cardinality({id \in ExistingIds : name \in Val(get_note(db, id)).tags})

\* C4: a step that calls update_note or delete_note with an id naming no
\* existing note returns not-found, does not raise, and leaves notes, tags
\* and associations as they were, whatever arguments it was given.
C4_MissingIdIsNoOp ==
    [][(last'.op \in {"update_note", "delete_note"} /\ ~NoteExists(db, last'.id))
          => (last'.result = "not_found" /\ db' = db)]_vars

\* C4 witness: update_note was called on a missing id of a store that holds
\* a note and a tag.
C4_Witness ==
    /\ last.op = "update_note"
    /\ last.result = "not_found"
    /\ ExistingIds # {}
    /\ db.tags # {}

\* C5: no two tag rows have one name, resolving an existing name returns the
\* existing row's id and inserts nothing, and total_tags counts each name
\* once.
C5_TagNamesUnique ==
    /\ \A t, u \in db.tags : t.name = u.name => t = u
    /\ \A t \in db.tags :
          get_or_create_tag(db, t.name) = [db |-> db, tag_id |-> t.id, raised |-> FALSE]
    /\ get_statistics(db).total_tags = Cardinality(TagNamesOf(db))

\* C5 witness: two existing notes carry the same tag name, held by one row.
C5_Witness ==
    /\ last.op = "add_note"
    /\ last.result = "ok"
    /\ \E i, j \in ExistingIds :
          /\ i # j
          /\ TagA \in NoteTagNames(db, i) \cap NoteTagNames(db, j)
    /\ Cardinality(TagRowsNamed(db, TagA)) = 1

\* C6: update_note with tags = T on an existing note leaves it with exactly
\* the names of T (none for an empty T), with tags omitted leaves its tag set
\* as it was, and in both cases leaves the tag sets of the other notes as
\* they were.
C6_UpdateReplacesTagSet ==
    \A id \in ExistingIds, title \in Opt(UpdateTitles),
       content \in Opt(UpdateContents), tags \in Opt(UpdateTagLists) :
        LET r == update_note(db, id, title, content, tags, clock)
        IN  /\ NoteTagNames(r.db, id) =
                  IF IsSome(tags) THEN Range(Val(tags)) ELSE NoteTagNames(db, id)
            /\ \A j \in ExistingIds \ {id} : NoteTagNames(r.db, j) = NoteTagNames(db, j)

\* C7: in every step a note's created_at stays as it was; its updated_at is
\* set to the current time by an update_note call on that note supplying
\* title or content, and by no other step (a tags-only update among them).
C7_TimestampsFrame ==
    [][\A id \in DOMAIN db.notes \cap DOMAIN db'.notes :
          LET touched == /\ last'.op = "update_note"
                         /\ last'.id = id
                         /\ last'.title \/ last'.content
          IN  /\ db'.notes[id].created_at = db.notes[id].created_at
              /\ touched => db'.notes[id].updated_at = clock'
              /\ ~touched => db'.notes[id].updated_at = db.notes[id].updated_at]_vars

\* C7 witness: a tags-only update succeeded on a note at an instant later
\* than the note's updated_at.
C7_Witness ==
    /\ last.op = "update_note"
    /\ last.result = "ok"
    /\ ~last.title
    /\ ~last.content
    /\ last.tags
    /\ db.notes[last.id].updated_at < clock
    /\ NoteTagNames(db, last.id) # {}

\* C8: a step that calls update_note on an existing id finds the note,
\* keeps every omitted one of title, content and tags, leaves every other
\* note as it was, and with all three omitted succeeds and leaves the store
\* as it was.
C8_UpdateChangesOnlySupplied ==
    [][(last'.op = "update_note" /\ NoteExists(db, last'.id)) =>
          LET id == last'.id
              before == Val(get_note(db, id))
              after == Val(get_note(db', id))
          IN  /\ last'.result # "not_found"
              /\ ~last'.title => after.title = before.title
              /\ ~last'.content => after.content = before.content
              /\ ~last'.tags => after.tags = before.tags
              /\ \A j \in ExistingIds \ {id} : get_note(db', j) = get_note(db, j)
              /\ (~last'.title /\ ~last'.content /\ ~last'.tags)
                    => (last'.result = "ok" /\ db' = db)]_vars

\* C8 witness: update_note with nothing supplied succeeded on a note that
\* has tags, in a store holding another note.
C8_Witness ==
    /\ last.op = "update_note"
    /\ last.result = "ok"
    /\ ~last.title
    /\ ~last.content
    /\ ~last.tags
    /\ NoteTagNames(db, last.id) # {}
    /\ Cardinality(ExistingIds) = 2

\* C9: no step removes a tag row, so total_tags never decreases and
\* statistics keeps listing every name it listed before.
C9_TagsNeverPruned ==
    [][/\ db.tags \subseteq db'.tags
       /\ get_statistics(db').total_tags >= get_statistics(db).total_tags
       /\ DOMAIN get_statistics(db).tag_counts \subseteq DOMAIN get_statistics(db').tag_counts]_vars

\* C9 witness: after a delete, statistics lists a tag that no existing note
\* carries.
C9_Witness ==
    /\ last.op = "delete_note"
    /\ last.result = "ok"
    /\ \E t \in db.tags :
          /\ \A id \in ExistingIds : t.name \notin NoteTagNames(db, id)
          /\ t.name \in DOMAIN get_statistics(db).tag_counts

NoRepeats(s) == \A i, j \in 1..Len(s) : i # j => s[i] # s[j]

\* s occurs in t as a run of equal characters.
IsSubstring(s, t) ==
    \E i \in 1..(Len(t) - Len(s) + 1) : SubSeq(t, i, i + Len(s) - 1) = s

\* C10 as stated: a search returns each note once, and exactly the existing
\* notes that satisfy every supplied filter: the title as a substring of the
\* title, the keyword as a substring of title or content, created_at within
\* the inclusive date bounds, and at least one of the supplied tag names.
C10_SearchReturnsSubstringMatches ==
    \A a \in SearchArgs :
        LET matching ==
              {id \in ExistingIds :
                  LET n == Val(get_note(db, id))
                  IN  /\ IsSome(a.title) => IsSubstring(Val(a.title), n.title)
                      /\ IsSome(a.keyword) =>
                            (IsSubstring(Val(a.keyword), n.title)
                                \/ IsSubstring(Val(a.keyword), n.content))
                      /\ IsSome(a.start_date) => n.created_at >= Val(a.start_date)
                      /\ IsSome(a.end_date) => n.created_at <= Val(a.end_date)
                      /\ IsSome(a.tags) => n.tags \cap Range(Val(a.tags)) # {}}
        IN  \A res \in search_notes(db, a) :
                NoRepeats(res) /\ Range(res) = matching

\* C10, amended: a search returns each note once, and exactly the existing
\* notes that satisfy every filter supplied with a non-empty value (an empty
\* string or an empty tag list filters nothing): title LIKE %title%, title
\* or content LIKE %keyword%, created_at within the inclusive date bounds,
\* and at least one of the supplied tag names.
C10_SearchReturnsLikeMatches ==
    \A a \in SearchArgs :
        LET matching ==
              {id \in ExistingIds :
                  LET n == Val(get_note(db, id))
                  IN  /\ Truthy(a.title) => Like(n.title, Wrap(Val(a.title)))
                      /\ Truthy(a.keyword) =>
                            (Like(n.title, Wrap(Val(a.keyword)))
                                \/ Like(n.content, Wrap(Val(a.keyword))))
                      /\ TruthyDate(a.start_date) => n.created_at >= Val(a.start_date)
                      /\ TruthyDate(a.end_date) => n.created_at <= Val(a.end_date)
                      /\ Truthy(a.tags) => n.tags \cap Range(Val(a.tags)) # {}}
        IN  \A res \in search_notes(db, a) :
                NoRepeats(res) /\ Range(res) = matching

\* C10 witness: of two existing notes one carries both tag names, and a
\* search returned that note alone, once, as the search for the two names
\* does.
C10_Witness ==
    /\ last.op = "search_notes"
    /\ Cardinality(ExistingIds) = 2
    /\ \E id \in ExistingIds :
          /\ NoteTagNames(db, id) = {TagA, TagB}
          /\ last.found = <<id>>
          /\ search_notes(db, [title |-> None, tags |-> Some(<<TagA, TagB>>),
                               start_date |-> None, end_date |-> None,
                               keyword |-> None]) = {<<id>>}

NoFilters ==
    [title |-> None, tags |-> None, start_date |-> None, end_date |-> None,
     keyword |-> None]

\* created_at does not increase along the list res of note ids.
CreatedDescending(res) ==
    \A i, j \in 1..Len(res) :
        i < j => db.notes[res[i]].created_at >= db.notes[res[j]].created_at

\* C11: in every store state a search with no filter supplied returns the
\* list that get_all_notes returns with its defaults, and every search,
\* whatever its filters, returns its notes in non-increasing created_at
\* order.
C11_UnfilteredSearchIsListAll ==
    /\ search_notes(db, NoFilters) = {get_all_notes(db, "created_at", "DESC")}
    /\ \A a \in SearchArgs : \A res \in search_notes(db, a) : CreatedDescending(res)

\* C11 witness: a search returned the two notes of the store, created at
\* the same instant, as the search without filters and the default listing
\* do.
C11_Witness ==
    /\ last.op = "search_notes"
    /\ Len(last.found) = 2
    /\ db.notes[last.found[1]].created_at = db.notes[last.found[2]].created_at
    /\ search_notes(db, NoFilters) = {last.found}
    /\ get_all_notes(db, "created_at", "DESC") = last.found

\* The value a get_all_notes argument stands for: itself if it is one of
\* the allowed values, else the default.
OrDefault(value, allowed, default) == IF value \in allowed THEN value ELSE default

\* C12: a get_all_notes call with any sort field and order, valid or not,
\* raises nothing and returns the list that the call returns with every
\* invalid value replaced by its default (created_at, DESC).
C12_InvalidSortFallsBack ==
    last.op = "get_all_notes" =>
        /\ last.result = "ok"
        /\ last.found =
              get_all_notes(db,
                  OrDefault(last.sort_by, {"created_at", "updated_at", "title"}, "created_at"),
                  OrDefault(last.order, {"ASC", "DESC"}, "DESC"))

\* C12 witness: get_all_notes was called by title with an invalid order on
\* two notes and returned them by title in descending order.
C12_Witness ==
    /\ last.op = "get_all_notes"
    /\ last.sort_by = "title"
    /\ last.order = "asc"
    /\ Len(last.found) = 2
    /\ KeyLess(db, last.found[2], last.found[1], "title")

\* The list of a get_all_notes call holds every existing note once, in the
\* order of the valid field and direction asked for.
ListedOnceAndSorted ==
    (last.op = "get_all_notes"
        /\ last.sort_by \in {"created_at", "updated_at", "title"}
        /\ last.order \in {"ASC", "DESC"}) =>
        /\ NoRepeats(last.found)
        /\ Range(last.found) = ExistingIds
        /\ \A i, j \in 1..Len(last.found) :
              i < j => ~KeyLess(db, IF last.order = "ASC" THEN last.found[j] ELSE last.found[i],
                                    IF last.order = "ASC" THEN last.found[i] ELSE last.found[j],
                                    last.sort_by)

\* Ids are assigned in the order of creation: the note created last has the
\* greatest id, the note created first the least.
LastCreated(ids) == CHOOSE i \in ids : \A j \in ids : j <= i
FirstCreated(ids) == CHOOSE i \in ids : \A j \in ids : i <= j

HasPrefix(line, label) == Len(line) >= Len(label) /\ SubSeq(line, 1, Len(label)) = label
AfterPrefix(line, label) == SubSeq(line, Len(label) + 1, Len(line))

RECURSIVE ParseDecimal(_)
ParseDecimal(text) ==
    IF text = <<>> THEN 0
    ELSE 10 * ParseDecimal(SubSeq(text, 1, Len(text) - 1))
            + ((CHOOSE k \in 1..10 : Digits[k] = text[Len(text)]) - 1)

\* One record of the export read back: the lines from a "=" rule up to the
\* next one.  The labelled lines give title, id and tags ("None" for no
\* tag, else the names between ", "); the lines after the "-" rule, less
\* the empty line that ends the record, are the content.
ParseRecord(lines) ==
    LET TitleLabel == <<"T", "i", "t", "l", "e", ":", " ">>
        IdLabel == <<"I", "D", ":", " ">>
        TagsLabel == <<"T", "a", "g", "s", ":", " ">>
        wellFormed ==
            /\ Len(lines) >= 9
            /\ HasPrefix(lines[2], TitleLabel)
            /\ HasPrefix(lines[3], IdLabel)
            /\ \A i \in 1..Len(AfterPrefix(lines[3], IdLabel)) :
                  \E k \in 1..10 : Digits[k] = AfterPrefix(lines[3], IdLabel)[i]
            /\ HasPrefix(lines[4], TagsLabel)
            /\ lines[7] = Repeat("-", RuleWidth)
            /\ lines[Len(lines)] = <<>>
        tagsText == AfterPrefix(lines[4], TagsLabel)
    IN  IF ~wellFormed THEN [malformed |-> TRUE]
        ELSE [id |-> ParseDecimal(AfterPrefix(lines[3], IdLabel)),
              title |-> AfterPrefix(lines[2], TitleLabel),
              tags |-> IF tagsText = <<"N", "o", "n", "e">> THEN {}
                       ELSE Range(SplitOn(tagsText, <<",", " ">>)),
              content |-> Join(SubSeq(lines, 8, Len(lines) - 1), <<"\n">>)]

\* The export read back: its lines, cut into records at the "=" rules.
ParseExport(text) ==
    IF text = <<>> THEN <<>>
    ELSE LET lines == SplitOn(text, <<"\n">>)
             starts == {i \in 1..Len(lines) : lines[i] = Repeat("=", RuleWidth)}
             EndOf(i) == IF \E j \in starts : j > i
                         THEN (CHOOSE j \in starts : j > i /\ \A k \in starts : k > i => j <= k) - 1
                         ELSE Len(lines)
             rank(i) == Cardinality({j \in starts : j <= i})
         IN  IF 1 \notin starts THEN <<[malformed |-> TRUE]>>
             ELSE [n \in 1..Cardinality(starts) |->
                      LET i == CHOOSE j \in starts : rank(j) = n
                      IN  ParseRecord(SubSeq(lines, i, EndOf(i)))]

\* C14: the text of export_notes, read back record by record, gives the id,
\* title, tag set and content of every note of the store, in the order of
\* the default listing.
C14_ExportRoundTrip ==
    last.op = "export_notes" =>
        LET ids == get_all_notes(db, "created_at", "DESC")
        IN  ParseExport(last.text) =
                [n \in 1..Len(ids) |->
                    LET note == Val(get_note(db, ids[n]))
                    IN  [id |-> note.id, title |-> note.title, tags |-> note.tags,
                         content |-> note.content]]

\* C15: the AUTOINCREMENT sequence of notes never decreases and bounds the
\* id of every note present, and every add_note that returns gives a
\* positive id greater than the sequence before the call, so greater than
\* every id given before, those of deleted notes included, and that of no
\* note present before the call.
C15_NoteIdsIncrease ==
    [][/\ \A i \in DOMAIN db.notes : 0 < i /\ i <= db.seq_notes
       /\ db'.seq_notes >= db.seq_notes
       /\ (last'.op = "add_note" /\ last'.result = "ok") =>
             /\ last'.id > 0
             /\ last'.id > db.seq_notes
             /\ last'.id \notin DOMAIN db.notes
             /\ last'.id \in DOMAIN db'.notes
             /\ last'.id <= db'.seq_notes]_vars

\* C15 witness: after the first note was deleted, add_note returned the id
\* 2 for the only note of the store.
C15_Witness ==
    /\ last.op = "add_note"
    /\ last.result = "ok"
    /\ last.id = 2
    /\ ExistingIds = {2}

\* A name that is not empty and neither starts nor ends with whitespace.
Trimmed(name) ==
    /\ name # <<>>
    /\ Head(name) \notin Whitespace
    /\ name[Len(name)] \notin Whitespace

\* The names a --tags text stands for: its pieces between commas, trimmed,
\* the empty ones dropped.
TrimmedNames(text) == {Strip(piece) : piece \in Range(SplitOn(text, <<",">>))} \ {<<>>}

\* C16 as stated: no stored tag name is empty, starts with whitespace or
\* ends with whitespace, whatever names were passed to the store.
C16_StoredNamesTrimmed == \A t \in db.tags : Trimmed(t.name)

\* C16, amended: every tag row that an add or update command makes has a
\* trimmed name; a command that succeeds with --tags leaves its note with
\* the trimmed names of the pieces of the text, a piece whose trimmed name
\* is already stored resolving to that row (no row is changed, no second
\* row of a name is made); and add_note called directly stores the names
\* as they were passed.
C16_CommandsTrimNames ==
    [][/\ last'.op \in {"cmd_add", "cmd_update"} =>
             \A t \in db'.tags \ db.tags : Trimmed(t.name)
       /\ (last'.op \in {"cmd_add", "cmd_update"} /\ last'.result = "ok"
              /\ IsSome(cli.args.tags)) =>
             /\ NoteTagNames(db', last'.id) = TrimmedNames(Val(cli.args.tags))
             /\ db.tags \subseteq db'.tags
             /\ \A t, u \in db'.tags : t.name = u.name => t = u
       /\ (last'.op = "add_note" /\ last'.result = "ok") =>
             \E input \in PaddedNotes : NoteTagNames(db', last'.id) = Range(input[3])]_vars

\* C16 witness: an add command given "a ,,b<TAB>" left its note with the
\* tags a and b, a being the one tag row that an earlier note carries too.
C16_Witness ==
    /\ last.op = "cmd_add"
    /\ last.result = "ok"
    /\ cli.args.tags = Some(<<"a", " ", ",", ",", "b", "\t">>)
    /\ NoteTagNames(db, last.id) = {TagA, TagB}
    /\ \E i \in ExistingIds \ {last.id} : TagA \in NoteTagNames(db, i)
    /\ Cardinality(TagRowsNamed(db, TagA)) = 1

\* C17: the delete command calls the store's delete_note only if -y is set
\* or the answer read is "y" or "Y"; after any other answer it has issued no
\* store call, the store is as it was, and it has printed the cancellation.
C17_DeleteOnlyWhenConfirmed ==
    [][last'.op = "cmd_delete" =>
          LET confirmed == cli.args.yes
                              \/ (IsSome(cli'.answer) /\ Val(cli'.answer) \in {<<"y">>, <<"Y">>})
          IN  /\ cli'.calls # cli.calls => confirmed
              /\ db' # db => confirmed
              /\ (IsSome(cli'.answer) /\ ~confirmed) =>
                    /\ cli'.calls = cli.calls
                    /\ db' = db
                    /\ in_transaction' = in_transaction
                    /\ cli'.printed = "cancelled"]_vars

\* C17 witness: the delete command, answered "yes", printed the
\* cancellation and left the note in the store.
C17_Witness ==
    /\ last.op = "cmd_delete"
    /\ cli.answer = Some(<<"y", "e", "s">>)
    /\ cli.printed = "cancelled"
    /\ cli.calls = <<>>
    /\ NoteExists(db, 1)

C19_FailedCallLeavesNothing ==
    [][(last'.op \in {"add_note", "update_note"} /\ last'.result = "IntegrityError") =>
          /\ db'.notes = db.notes
          /\ db'.note_tags = db.note_tags]_vars

====
